---- MODULE Spec2Model ----
(***************************************************************************)
(* Multi-store sales aggregation of sc-order: the streaming sales sync     *)
(* (app.py sync_products_sales.generate_progress), the parallel fetch      *)
(* (app.py fetch_sales_data_from_stores), the paginated query client       *)
(* (shopify_api.py ShopifyAPI.get_sales_by_skus_and_tag) and the bulk      *)
(* write (database.py bulk_update_sales).                                  *)
(*                                                                         *)
(* Python values: an optional value (None or a value) is a sequence of     *)
(* length 0 or 1; a str whose characters matter is a sequence of           *)
(* characters; a dict is a function on its key set.                        *)
(***************************************************************************)
EXTENDS Integers, Sequences, FiniteSets, TLC

VARIABLES
    settings,            \* row 1 of the settings table, as get_settings returns it
    product_ids_param,   \* request.args['product_ids'], split at ','
    db,                  \* the products table, ORDER BY product_name
    shop,                \* per store URL: the orders the store holds
    pc,                  \* position of generate_progress
    events,              \* the events yielded so far
    products,            \* generate_progress: the products of this run
    sales_result,        \* generate_progress: result of fetch_sales_data_from_stores
    idx,                 \* generate_progress: products handled by the loop so far
    all_updates,         \* generate_progress: (id, quantity) pairs collected
    synced_count,
    not_found_count,
    not_found_products,
    reported,            \* generate_progress: failed stores reported so far
    stores,              \* fetch_sales_data_from_stores: resolved store configs
    sku_batches,         \* fetch_sales_data_from_stores: SKU batches
    worker,              \* per submitted future: the state of fetch_store_sales
    merged,              \* futures the as_completed loop has consumed
    total_sales_by_sku,
    failed_stores,
    requests,            \* history: per future, the requests sent and their outcomes
    bulk_calls,          \* history: Len(events) at each bulk_update_sales call
    db_before,           \* history: the products table when the run began
    server,              \* the store a lone get_sales_by_skus_and_tag call talks to
    call,                \* get_sales_by_skus_and_tag called on its own: the running call
    calls,               \* history: per call, its requests, callbacks and result
    payload,             \* history: the settings dict handed to update_settings
    sync,                \* position and locals of the inventory / price sync generator
    catalog,             \* the products table as the inventory / price sync sees it
    sync_log,            \* history: the lookups and bulk writes of the sync
    quotations,          \* Quotations_tbl of the MS SQL database
    req,                 \* per create_quotation request: its position and locals
    now                  \* the clock of the application host, in seconds

envVars == <<settings, product_ids_param, shop, db_before>>
genVars == <<products, sales_result, idx, all_updates, synced_count,
             not_found_count, not_found_products, reported>>
fetchVars == <<stores, sku_batches, worker, merged, total_sales_by_sku, failed_stores>>
sideVars == <<server, call, calls, payload, sync, catalog, sync_log, quotations, req, now>>
vars == <<envVars, sideVars, db, pc, events, genVars, fetchVars, requests, bulk_calls>>

-----------------------------------------------------------------------------
(* Python helpers *)

None == <<>>
Some(v) == <<v>>

\* truthiness of an optional str: None and '' are falsy
Truthy(v) == v # None /\ v[1] # ""

EmptyDict == [k \in {} |-> 0]

\* dict.get(k, d)
Get(m, k, d) == IF k \in DOMAIN m THEN m[k] ELSE d

\* m[k] = v
Put(m, k, v) == [x \in (DOMAIN m) \cup {k} |-> IF x = k THEN v ELSE m[x]]

MergeIntoOverwrite(dst, src) ==
    [k \in (DOMAIN dst) \cup (DOMAIN src) |-> Get(src, k, Get(dst, k, 0))]

\* for k, v in src.items(): dst[k] = dst.get(k, 0) + v
MergeInto(dst, src) ==
    [k \in (DOMAIN dst) \cup (DOMAIN src) |-> Get(dst, k, 0) + Get(src, k, 0)]

Min(a, b) == IF a < b THEN a ELSE b

\* str.strip() on a str given as a sequence of characters
RECURSIVE LStrip(_)
LStrip(s) == IF s # <<>> /\ s[1] = " " THEN LStrip(Tail(s)) ELSE s
RECURSIVE RStrip(_)
RStrip(s) ==
    IF s # <<>> /\ s[Len(s)] = " " THEN RStrip(SubSeq(s, 1, Len(s) - 1)) ELSE s
Strip(s) == LStrip(RStrip(s))

-----------------------------------------------------------------------------
(* Program constants *)

batch_size == 50        \* SKUs per query
page_size == 250        \* orders asked for per page
max_workers == 5        \* ThreadPoolExecutor(max_workers=5)
StoreSlots == 1..6      \* the main store and 'Store 2' .. 'Store 6'

(* Bounds of the model *)

MaxSlot == 2            \* store slots that may be configured
MaxProducts == 2        \* products of the table besides the padding rows
ServerPageLen == 1      \* orders a store returns per page (at most page_size)

-----------------------------------------------------------------------------
(* Inputs: the settings row, the request, the products table, the stores *)

StoreUrl == [i \in StoreSlots |-> "shop" \o ToString(i) \o ".myshopify.com"]

\* sales_order_tag: NULL, '', ' ', 't '
TagValues == {None, Some(<<>>), Some(<<" ">>), Some(<<"t", " ">>)}

\* one store slot of the settings row: unset, URL without token, URL and token
SlotValues(i) ==
    IF i > MaxSlot THEN {[url |-> None, token |-> None]}
    ELSE IF i = 1
         THEN {[url |-> None, token |-> None],
               [url |-> Some(StoreUrl[i]), token |-> Some("")],
               [url |-> Some(StoreUrl[i]), token |-> Some("shpat")]}
         ELSE {[url |-> None, token |-> None],
               [url |-> Some(StoreUrl[i]), token |-> Some("shpat")]}

SettingsRows ==
    {[sales_order_tag |-> t, store |-> s] :
        t \in TagValues,
        s \in {f \in [StoreSlots -> UNION {SlotValues(i) : i \in StoreSlots}] :
                 \A i \in StoreSlots : f[i] \in SlotValues(i)}}

\* product_ids: absent, '1', 'x'
ParamValues == {<<>>, <<"1">>, <<"x">>}

\* a products row; quantity_per_case is NULL or a number (Python int)
ProductRow(id, sku, qpc) ==
    [id |-> id, upc_barcode |-> sku, quantity_per_case |-> qpc,
     quantity_per_case_type |-> "int", quantity_sold_last_month |-> Some(9)]

\* a products row whose quantity_per_case holds a text that is no number, such
\* as 'abc': create_product stores the JSON value as it comes and the INTEGER
\* column keeps such a text as TEXT (Python str); the number is not used
TextCaseRow(id, sku) ==
    [ProductRow(id, sku, Some(0)) EXCEPT !.quantity_per_case_type = "str"]

\* rows the free part of the table is made of; upc_barcode is UNIQUE NOT NULL
FreeRows ==
    {ProductRow(1, "A", Some(4)), ProductRow(1, "A", None),
     ProductRow(2, "B", Some(0)), ProductRow(3, "", Some(2))}

FreeTables ==
    UNION {{t \in [1..n -> FreeRows] :
              \A i, j \in 1..n : i < j => t[i].id < t[j].id} : n \in 0..MaxProducts}

\* batch_size - 1 rows whose SKUs no order carries: the next row is the last of
\* the first SKU batch and the row after it opens the second batch
PadRows == [i \in 1..(batch_size - 1) |-> ProductRow(100 + i, "P" \o ToString(i), Some(0))]

\* a table of batch_size + 1 SKUs: two SKU batches, A in the first, B in the second
PaddedTables ==
    {PadRows \o <<ProductRow(1, "A", Some(4)), ProductRow(2, "B", Some(0))>>}

LineItem(sku, q) == [sku |-> sku, quantity |-> q]
Order(tag, recent, items) == [tag |-> tag, in_range |-> recent, items |-> items]

\* order lists a store may hold
OrderLists ==
    {<<>>,
     <<Order(<<"t">>, TRUE, <<LineItem("A", 1), LineItem("B", 2)>>),
       Order(<<"u">>, TRUE, <<LineItem("A", 7)>>),
       Order(<<"t">>, FALSE, <<LineItem("B", 1)>>),
       Order(<<"t">>, TRUE, <<LineItem("A", 3), LineItem("", 1)>>),
       Order(<<"t">>, TRUE, <<LineItem("A", 2)>>)>>}

Urls == {StoreUrl[i] : i \in StoreSlots}

\* the stores of the world: a store no slot names holds nothing the run can see
Shops(row) ==
    {f \in [Urls -> OrderLists] :
        \A i \in StoreSlots :
            (row.store[i].url = None \/ ~Truthy(row.store[i].token)) => f[StoreUrl[i]] = <<>>}

-----------------------------------------------------------------------------
(* The store's side of a request: Shopify evaluates the query string        *)
(* 'created_at:>=.. AND tag:TAG AND (sku:A OR sku:B ...)' over its orders   *)
(* and returns whole orders, a page at a time.                             *)

Range(s) == {s[i] : i \in 1..Len(s)}

OrderMatches(o, order_tag, skus) ==
    /\ o.in_range
    /\ o.tag = order_tag
    /\ \E i \in 1..Len(o.items) : o.items[i].sku \in Range(skus)

MatchingOrders(orders, order_tag, skus) ==
    SelectSeq(orders, LAMBDA o : OrderMatches(o, order_tag, skus))

\* the 'orders' connection for one request; the cursor is the position of the
\* last order of the page among the matching orders
OrdersConnection(orders, order_tag, skus, cursor) ==
    LET m == MatchingOrders(orders, order_tag, skus)
        from == IF cursor = None THEN 0 ELSE cursor[1]
        to == Min(from + Min(page_size, ServerPageLen), Len(m))
    IN  [edges |-> SubSeq(m, from + 1, to),
         pageInfo |-> [hasNextPage |-> to < Len(m),
                       endCursor |-> IF to > from THEN Some(to) ELSE None]]

-----------------------------------------------------------------------------
(* ShopifyAPI.get_sales_by_skus_and_tag: one page *)

\* if sku: sales_by_sku[sku] = sales_by_sku.get(sku, 0) + quantity
AddLineItem(sales_by_sku, li) ==
    IF li.sku # ""
    THEN Put(sales_by_sku, li.sku, Get(sales_by_sku, li.sku, 0) + li.quantity)
    ELSE sales_by_sku

RECURSIVE AddLineItems(_, _)
AddLineItems(sales_by_sku, items) ==
    IF items = <<>> THEN sales_by_sku
    ELSE AddLineItems(AddLineItem(sales_by_sku, Head(items)), Tail(items))

\* for order_edge in orders_connection['edges']: for li_edge in line_items: ...
RECURSIVE ProcessPage(_, _)
ProcessPage(sales_by_sku, edges) ==
    IF edges = <<>> THEN sales_by_sku
    ELSE ProcessPage(AddLineItems(sales_by_sku, Head(edges).items), Tail(edges))

-----------------------------------------------------------------------------
(* fetch_sales_data_from_stores: pure parts *)

StoreName(i) == IF i = 1 THEN "Store 1 (Main)" ELSE "Store " \o ToString(i)

RECURSIVE StoresFromEither(_, _)
StoresFromEither(row, i) ==
    IF i \notin StoreSlots THEN <<>>
    ELSE (IF Truthy(row.store[i].url) \/ Truthy(row.store[i].token)
          THEN <<[name |-> StoreName(i),
                  url |-> IF row.store[i].url = None THEN "" ELSE row.store[i].url[1],
                  token |-> IF row.store[i].token = None THEN "" ELSE row.store[i].token[1]]>>
          ELSE <<>>) \o StoresFromEither(row, i + 1)

\* the stores list: the main store, then stores 2..6, each if URL and token are set
RECURSIVE StoresFrom(_, _)
StoresFrom(row, i) ==
    IF i \notin StoreSlots THEN <<>>
    ELSE (IF Truthy(row.store[i].url) /\ Truthy(row.store[i].token)
          THEN <<[name |-> StoreName(i), url |-> row.store[i].url[1],
                  token |-> row.store[i].token[1]]>>
          ELSE <<>>) \o StoresFrom(row, i + 1)

ResolveStores(row) == StoresFrom(row, 1)

FetchRaisesUnstripped(row) ==
    IF row.sales_order_tag = None THEN "AttributeError"
    ELSE IF row.sales_order_tag[1] = <<>> THEN "ValueError"
    ELSE IF ResolveStores(row) = <<>> THEN "ValueError"
    ELSE "no"

\* what fetch_sales_data_from_stores raises before it starts any work
FetchRaises(row) ==
    IF row.sales_order_tag = None THEN "AttributeError"
    ELSE IF Strip(row.sales_order_tag[1]) = <<>> THEN "ValueError"
    ELSE IF ResolveStores(row) = <<>> THEN "ValueError"
    ELSE "no"

SkusOfAll(ps) == [i \in 1..Len(ps) |-> ps[i].upc_barcode]

\* skus = [p['upc_barcode'] for p in products if p.get('upc_barcode')]
RECURSIVE SkusOf(_)
SkusOf(ps) ==
    IF ps = <<>> THEN <<>>
    ELSE (IF Head(ps).upc_barcode # "" THEN <<Head(ps).upc_barcode>> ELSE <<>>)
         \o SkusOf(Tail(ps))

SkuBatchesShort(skus) ==
    [k \in 1..((Len(skus) + batch_size - 1) \div batch_size) |->
        SubSeq(skus, (k - 1) * batch_size + 1, Min(k * batch_size - 1, Len(skus)))]

\* sku_batches = [skus[i:i + batch_size] for i in range(0, len(skus), batch_size)]
SkuBatches(skus) ==
    [k \in 1..((Len(skus) + batch_size - 1) \div batch_size) |->
        SubSeq(skus, (k - 1) * batch_size + 1, Min(k * batch_size, Len(skus)))]

-----------------------------------------------------------------------------
(* generate_progress: pure parts *)

DigitValue == [c \in {"1", "2", "3"} |-> CASE c = "1" -> 1 [] c = "2" -> 2 [] c = "3" -> 3]

\* int(pid) raises ValueError unless pid is a number
ParamParses(param) == \A i \in 1..Len(param) : param[i] = "" \/ param[i] \in DOMAIN DigitValue

\* product_ids = [int(pid) for pid in product_ids_param.split(',') if pid]
ProductIds(param) == {DigitValue[param[i]] : i \in {j \in 1..Len(param) : param[j] # ""}}

FilterProductsAll(all_products, param) == all_products

\* products = [p for p in all_products if p['id'] in product_ids], or all_products
FilterProducts(all_products, param) ==
    IF param # <<>>
    THEN SelectSeq(all_products, LAMBDA p : p.id \in ProductIds(param))
    ELSE all_products

\* product.get('quantity_per_case') or 0
QuantityPerCase(product) ==
    IF product.quantity_per_case = None THEN 0 ELSE product.quantity_per_case[1]

CompareNeverRaises(product) == FALSE

\* 'quantity_per_case > 0' raises TypeError when quantity_per_case is a str
CompareRaises(product) == product.quantity_per_case_type = "str"

\* math.ceil(a / b) for a > 0, b > 0
Ceil(a, b) == (a + b - 1) \div b

OrderQuantityFloor(total_sales, quantity_per_case) ==
    IF quantity_per_case > 0
    THEN (total_sales \div quantity_per_case) * quantity_per_case
    ELSE total_sales

\* the quantity written for a product with sales
OrderQuantity(total_sales, quantity_per_case) ==
    IF quantity_per_case > 0
    THEN Ceil(total_sales, quantity_per_case) * quantity_per_case
    ELSE total_sales

FallbackQuantityZero(quantity_per_case) == 0

\* the quantity written for a product without sales
FallbackQuantity(quantity_per_case) ==
    IF quantity_per_case > 0 THEN quantity_per_case ELSE 0

-----------------------------------------------------------------------------
(* database.bulk_update_sales *)

\* UPDATE products SET quantity_sold_last_month = qty WHERE id = pid
UpdateRow(table, u) ==
    [i \in 1..Len(table) |->
        IF table[i].id = u[1]
        THEN [table[i] EXCEPT !.quantity_sold_last_month = Some(u[2])]
        ELSE table[i]]

\* cursor.executemany: the first k statements, inside the open transaction
RECURSIVE ExecuteMany(_, _, _)
ExecuteMany(table, updates, k) ==
    IF k = 0 THEN table
    ELSE UpdateRow(ExecuteMany(table, updates, k - 1), updates[k])

UncommittedKept(committed, working) == working

\* an exception before conn.commit(): the connection goes away with its
\* transaction open and SQLite rolls it back
Uncommitted(committed, working) == committed

-----------------------------------------------------------------------------
(* Events of the stream *)

Event(type) ==
    [type |-> type, status |-> "", current |-> 0, total |-> 0, quantity |-> 0,
     synced |-> 0, not_found |-> 0]

StartEvent(total) == [Event("start") EXCEPT !.total = total]
StatusEvent(message) == [Event("status") EXCEPT !.status = message]
ErrorEvent == Event("error")
ProgressEventZeroBased(current, total, status, quantity) ==
    [Event("progress") EXCEPT !.current = current - 1, !.total = total,
                              !.status = status, !.quantity = quantity]

ProgressEvent(current, total, status, quantity) ==
    [Event("progress") EXCEPT !.current = current, !.total = total,
                              !.status = status, !.quantity = quantity]
CompleteEvent(synced, not_found, total) ==
    [Event("complete") EXCEPT !.synced = synced, !.not_found = not_found,
                              !.total = total]

\* positions where generate_progress is suspended at a yield
YieldPoints ==
    {"y_start", "y_fetching", "y_fetched", "y_failed", "y_progress", "y_updated",
     "y_complete", "y_error"}

-----------------------------------------------------------------------------
(* Initial state: a request arrives *)

\* nothing but the sales sync request is under way
SideIdle ==
    /\ server = <<>>
    /\ call = <<>>
    /\ calls = <<>>
    /\ payload = <<>>
    /\ sync = <<>>
    /\ catalog = <<>>
    /\ sync_log = <<>>
    /\ quotations = <<>>
    /\ req = <<>>
    /\ now = 0

\* the tables a run is started on: the small tables with every settings row
\* and request, the table of two SKU batches with the runs of one or two
\* stores over the whole table
ProductTables(row, param) ==
    FreeTables \cup
    (IF param = <<>> /\ FetchRaises(row) = "no" /\ Len(ResolveStores(row)) <= 2
     THEN PaddedTables ELSE {})

Init ==
    /\ settings \in SettingsRows
    /\ product_ids_param \in ParamValues
    /\ db \in ProductTables(settings, product_ids_param)
    /\ shop \in Shops(settings)
    /\ pc = "init"
    /\ events = <<>>
    /\ products = <<>>
    /\ sales_result = None
    /\ idx = 0
    /\ all_updates = <<>>
    /\ synced_count = 0
    /\ not_found_count = 0
    /\ not_found_products = <<>>
    /\ reported = 0
    /\ stores = <<>>
    /\ sku_batches = <<>>
    /\ worker = <<>>
    /\ merged = {}
    /\ total_sales_by_sku = EmptyDict
    /\ failed_stores = <<>>
    /\ requests = <<>>
    /\ bulk_calls = <<>>
    /\ db_before = db
    /\ SideIdle

-----------------------------------------------------------------------------
(* generate_progress up to the call of fetch_sales_data_from_stores *)

\* first next(): settings, products, product_ids; yield start. An exception
\* (int(pid)) goes to the outer except, which yields error.
Start ==
    /\ pc = "init"
    /\ IF ParamParses(product_ids_param)
       THEN /\ products' = FilterProducts(db, product_ids_param)
            /\ events' = Append(events, StartEvent(Len(products')))
            /\ pc' = "y_start"
       ELSE /\ products' = products
            /\ events' = Append(events, ErrorEvent)
            /\ pc' = "y_error"
    /\ UNCHANGED <<envVars, sideVars, db, sales_result, idx, all_updates, synced_count,
                   not_found_count, not_found_products, reported, fetchVars,
                   requests, bulk_calls>>

\* yield status 'Fetching sales data from all stores...'
StatusFetching ==
    /\ pc = "y_start"
    /\ events' = Append(events, StatusEvent("fetching"))
    /\ pc' = "y_fetching"
    /\ UNCHANGED <<envVars, sideVars, db, genVars, fetchVars, requests, bulk_calls>>

NewWorker ==
    [st |-> "queued", batch |-> 0, cursor |-> None, has_next_page |-> FALSE,
     inflight |-> FALSE, sales_by_sku |-> EmptyDict, store_sales |-> EmptyDict,
     result |-> None]

\* the call of fetch_sales_data_from_stores, up to executor.submit for every
\* store; an exception, or the early return for a run without SKUs, ends the
\* call at once and the generator yields error, or the 'Fetched' status
CallFetch ==
    /\ pc = "y_fetching"
    /\ IF FetchRaises(settings) # "no"
       THEN /\ events' = Append(events, ErrorEvent)
            /\ pc' = "y_error"
            /\ UNCHANGED <<sales_result, stores, sku_batches, worker, requests>>
       ELSE IF SkusOf(products) = <<>>
       THEN /\ sales_result' = Some([sales_by_sku |-> EmptyDict,
                                     stores_processed |-> 0,
                                     stores_failed |-> <<>>,
                                     tag_used |-> Strip(settings.sales_order_tag[1])])
            /\ stores' = ResolveStores(settings)
            /\ events' = Append(events, StatusEvent("fetched"))
            /\ pc' = "y_fetched"
            /\ UNCHANGED <<sku_batches, worker, requests>>
       ELSE /\ stores' = ResolveStores(settings)
            /\ sku_batches' = SkuBatches(SkusOf(products))
            /\ worker' = [i \in 1..Len(stores') |-> NewWorker]
            /\ requests' = [i \in 1..Len(stores') |-> <<>>]
            /\ pc' = "fetching"
            /\ UNCHANGED <<sales_result, events>>
    /\ UNCHANGED <<envVars, sideVars, db, products, idx, all_updates, synced_count,
                   not_found_count, not_found_products, reported, merged,
                   total_sales_by_sku, failed_stores, bulk_calls>>

-----------------------------------------------------------------------------
(* fetch_store_sales, one call per store on the thread pool *)

SalesOrderTag == Strip(settings.sales_order_tag[1])

Running == {i \in DOMAIN worker : worker[i].st = "running"}

\* get_sales_by_skus_and_tag starts on a batch
BeginBatch(w, k) ==
    [w EXCEPT !.batch = k, !.cursor = None, !.has_next_page = TRUE,
              !.inflight = FALSE, !.sales_by_sku = EmptyDict]

PoolUnbounded == TRUE

\* ThreadPoolExecutor(max_workers=5): a queued task waits for an idle thread
PoolHasIdleThread == Cardinality(Running) < max_workers

\* a pool thread picks the task up: the client is built and the first batch begins
WorkerStart(i) ==
    /\ pc = "fetching"
    /\ i \in DOMAIN worker
    /\ worker[i].st = "queued"
    /\ PoolHasIdleThread
    /\ worker' = [worker EXCEPT ![i] = BeginBatch([@ EXCEPT !.st = "running"], 1)]
    /\ UNCHANGED <<envVars, sideVars, db, pc, events, genVars, stores, sku_batches, merged,
                   total_sales_by_sku, failed_stores, requests, bulk_calls>>

\* the history entry of the request in flight gets its outcome
Outcome(log, outcome) == [log EXCEPT ![Len(log)].outcome = outcome]

\* the history entry of the request in flight gets the pageInfo of its response
Response(log, pageInfo) ==
    [Outcome(log, "page") EXCEPT ![Len(log)].hasNextPage = pageInfo.hasNextPage,
                                 ![Len(log)].endCursor = pageInfo.endCursor]

CursorVariableNever(w) == None

\* variables = {...}; if cursor: variables['cursor'] = cursor
\* (a cursor is None or a str; Some(0) stands for the empty str)
CursorVariable(w) == IF w.cursor # None /\ w.cursor[1] # 0 THEN w.cursor ELSE None

CanSendWhilePending(w) == w.has_next_page

\* 'while has_next_page:' is evaluated when the previous request has returned
CanSend(w) == ~w.inflight /\ w.has_next_page

\* self._execute_query(query, variables): the request goes out
SendRequest(i) ==
    /\ pc = "fetching"
    /\ i \in DOMAIN worker
    /\ worker[i].st = "running"
    /\ CanSend(worker[i])
    /\ worker' = [worker EXCEPT ![i].inflight = TRUE]
    /\ requests' = [requests EXCEPT ![i] =
                       Append(@, [batch |-> worker[i].batch,
                                  cursor |-> CursorVariable(worker[i]),
                                  outcome |-> "pending",
                                  hasNextPage |-> FALSE,
                                  endCursor |-> None])]
    /\ UNCHANGED <<envVars, sideVars, db, pc, events, genVars, stores, sku_batches, merged,
                   total_sales_by_sku, failed_stores, bulk_calls>>

\* get_sales_by_skus_and_tag returns batch_sales: fetch_store_sales adds it to
\* store_sales and goes on to the next batch, or returns its result
EndBatch(w, store_name, batch_sales) ==
    LET store_sales == MergeInto(w.store_sales, batch_sales)
    IN  IF w.batch < Len(sku_batches)
        THEN BeginBatch([w EXCEPT !.store_sales = store_sales], w.batch + 1)
        ELSE [w EXCEPT !.st = "done", !.inflight = FALSE, !.has_next_page = FALSE,
                       !.store_sales = store_sales,
                       !.result = Some([store |-> store_name, success |-> TRUE,
                                        sales |-> store_sales])]

\* a page arrives, the store's answer to the request as it was sent: its line
\* items are added, pageInfo decides whether to go on
ReceivePage(i) ==
    /\ pc = "fetching"
    /\ i \in DOMAIN worker
    /\ worker[i].inflight
    /\ LET w == worker[i]
           conn == OrdersConnection(shop[stores[i].url], SalesOrderTag,
                                    sku_batches[w.batch],
                                    requests[i][Len(requests[i])].cursor)
           sales == ProcessPage(w.sales_by_sku, conn.edges)
       IN  worker' = [worker EXCEPT ![i] =
               IF conn.pageInfo.hasNextPage
               THEN [w EXCEPT !.inflight = FALSE, !.sales_by_sku = sales,
                              !.cursor = conn.pageInfo.endCursor]
               ELSE EndBatch(w, stores[i].name, sales)]
    /\ requests' = [requests EXCEPT ![i] =
           Response(@, OrdersConnection(shop[stores[i].url], SalesOrderTag,
                                        sku_batches[worker[i].batch],
                                        @[Len(@)].cursor).pageInfo)]
    /\ UNCHANGED <<envVars, sideVars, db, pc, events, genVars, stores, sku_batches, merged,
                   total_sales_by_sku, failed_stores, bulk_calls>>

RequestFailsShared(i) ==
    /\ pc = "fetching"
    /\ i \in DOMAIN worker
    /\ worker[i].inflight
    /\ worker' = [worker EXCEPT ![i] =
                     EndBatch(worker[i], stores[i].name, worker[i].sales_by_sku)]
    /\ requests' = [requests EXCEPT ![i] = Outcome(@, "failed")]
    /\ failed_stores' = Append(failed_stores, [store |-> stores[i].name])
    /\ UNCHANGED <<envVars, sideVars, db, pc, events, genVars, stores, sku_batches, merged,
                   total_sales_by_sku, bulk_calls>>

\* the request fails (transport error, status other than 200, 'errors' in the
\* payload): _execute_query raises, the except clause prints and breaks, and
\* the sums of the pages read so far are returned as the batch's result
RequestFails(i) ==
    /\ pc = "fetching"
    /\ i \in DOMAIN worker
    /\ worker[i].inflight
    /\ worker' = [worker EXCEPT ![i] =
                     EndBatch(worker[i], stores[i].name, worker[i].sales_by_sku)]
    /\ requests' = [requests EXCEPT ![i] = Outcome(@, "failed")]
    /\ UNCHANGED <<envVars, sideVars, db, pc, events, genVars, stores, sku_batches, merged,
                   total_sales_by_sku, failed_stores, bulk_calls>>

-----------------------------------------------------------------------------
(* fetch_sales_data_from_stores: the as_completed loop and the return *)

\* one iteration of the as_completed loop, for a future that is done
MergeResult(i) ==
    /\ pc = "fetching"
    /\ i \in DOMAIN worker
    /\ worker[i].st = "done"
    /\ i \notin merged
    /\ merged' = merged \cup {i}
    /\ LET result == worker[i].result[1]
       IN  IF result.success
           THEN /\ total_sales_by_sku' = MergeInto(total_sales_by_sku, result.sales)
                /\ UNCHANGED failed_stores
           ELSE /\ failed_stores' = Append(failed_stores, [store |-> result.store])
                /\ UNCHANGED total_sales_by_sku
    /\ UNCHANGED <<envVars, sideVars, db, pc, events, genVars, stores, sku_batches, worker,
                   requests, bulk_calls>>

AnyConsumed == merged # {}

\* 'for future in as_completed(futures)' ends when every future was yielded
AllConsumed == merged = DOMAIN worker

StoresProcessedWithSales ==
    Cardinality({i \in merged : worker[i].store_sales # EmptyDict})

\* stores_processed = len(stores) - len(failed_stores)
StoresProcessed == Len(stores) - Len(failed_stores)

\* every future is consumed: the result is returned and the generator yields
\* the status 'Fetched sales from N store(s) ...'
FetchReturn ==
    /\ pc = "fetching"
    /\ AllConsumed
    /\ sales_result' = Some([sales_by_sku |-> total_sales_by_sku,
                             stores_processed |-> StoresProcessed,
                             stores_failed |-> failed_stores,
                             tag_used |-> SalesOrderTag])
    /\ events' = Append(events, StatusEvent("fetched"))
    /\ pc' = "y_fetched"
    /\ UNCHANGED <<envVars, sideVars, db, products, idx, all_updates, synced_count,
                   not_found_count, not_found_products, reported, fetchVars,
                   requests, bulk_calls>>

-----------------------------------------------------------------------------
(* generate_progress after the fetch *)

\* if stores_failed: one status per failed store; then the product loop begins
ReportFailedStores ==
    /\ pc \in {"y_fetched", "y_failed"}
    /\ IF reported < Len(sales_result[1].stores_failed)
       THEN /\ events' = Append(events, StatusEvent("store failed"))
            /\ reported' = reported + 1
            /\ pc' = "y_failed"
       ELSE /\ pc' = "loop"
            /\ UNCHANGED <<events, reported>>
    /\ UNCHANGED <<envVars, sideVars, db, products, sales_result, idx, all_updates,
                   synced_count, not_found_count, not_found_products, fetchVars,
                   requests, bulk_calls>>

\* one iteration of 'for idx, product in enumerate(products)', ending at its
\* yield: skipped, or synced, or not_found, or (an exception in the try block,
\* raised by the comparison before anything is appended or counted) error
ProcessProduct ==
    /\ pc \in {"loop", "y_progress"}
    /\ idx < Len(products)
    /\ LET current_index == idx + 1
           product == products[current_index]
           upc_barcode == product.upc_barcode
           total_products == Len(products)
           quantity_per_case == QuantityPerCase(product)
           total_sales == Get(sales_result[1].sales_by_sku, upc_barcode, 0)
       IN  IF upc_barcode = ""
           THEN /\ events' = Append(events,
                        ProgressEvent(current_index, total_products, "skipped", 0))
                /\ UNCHANGED <<all_updates, synced_count, not_found_count,
                               not_found_products>>
           ELSE IF CompareRaises(product)
           THEN /\ events' = Append(events,
                        ProgressEvent(current_index, total_products, "error", 0))
                /\ UNCHANGED <<all_updates, synced_count, not_found_count,
                               not_found_products>>
           ELSE IF total_sales > 0
           THEN LET order_quantity == OrderQuantity(total_sales, quantity_per_case)
                IN  /\ all_updates' = Append(all_updates, <<product.id, order_quantity>>)
                    /\ synced_count' = synced_count + 1
                    /\ events' = Append(events,
                           ProgressEvent(current_index, total_products, "synced",
                                         order_quantity))
                    /\ UNCHANGED <<not_found_count, not_found_products>>
           ELSE LET fallback_quantity == FallbackQuantity(quantity_per_case)
                IN  /\ all_updates' = Append(all_updates, <<product.id, fallback_quantity>>)
                    /\ not_found_count' = not_found_count + 1
                    /\ not_found_products' = Append(not_found_products, upc_barcode)
                    /\ events' = Append(events,
                           ProgressEvent(current_index, total_products, "not_found",
                                         fallback_quantity))
                    /\ UNCHANGED synced_count
    /\ idx' = idx + 1
    /\ pc' = "y_progress"
    /\ UNCHANGED <<envVars, sideVars, db, products, sales_result, reported, fetchVars,
                   requests, bulk_calls>>

LoopDone == pc \in {"loop", "y_progress"} /\ idx = Len(products)

HasUpdatesAlways == TRUE

\* if all_updates:
HasUpdates == all_updates # <<>>

\* database.bulk_update_sales(all_updates) commits; yield status 'Updated ...'
BulkUpdateCommits ==
    /\ LoopDone
    /\ HasUpdates
    /\ db' = ExecuteMany(db, all_updates, Len(all_updates))
    /\ bulk_calls' = Append(bulk_calls, Len(events))
    /\ events' = Append(events, StatusEvent("updated"))
    /\ pc' = "y_updated"
    /\ UNCHANGED <<envVars, sideVars, genVars, fetchVars, requests>>

BulkUpdateRaisesGoesOn ==
    /\ LoopDone
    /\ HasUpdates
    /\ \E k \in 0..Len(all_updates) :
          db' = Uncommitted(db, ExecuteMany(db, all_updates, k))
    /\ bulk_calls' = Append(bulk_calls, Len(events))
    /\ events' = Append(events, ErrorEvent)
    /\ pc' = "y_updated"
    /\ UNCHANGED <<envVars, sideVars, genVars, fetchVars, requests>>

\* database.bulk_update_sales(all_updates) raises, in executemany after k
\* statements or in commit; yield error and return
BulkUpdateRaises ==
    /\ LoopDone
    /\ HasUpdates
    /\ \E k \in 0..Len(all_updates) :
          db' = Uncommitted(db, ExecuteMany(db, all_updates, k))
    /\ bulk_calls' = Append(bulk_calls, Len(events))
    /\ events' = Append(events, ErrorEvent)
    /\ pc' = "y_error"
    /\ UNCHANGED <<envVars, sideVars, genVars, fetchVars, requests>>

\* yield complete, after the update or when there is nothing to update
Complete ==
    /\ \/ pc = "y_updated"
       \/ LoopDone /\ ~HasUpdates
    /\ events' = Append(events,
            CompleteEvent(synced_count, not_found_count, Len(products)))
    /\ pc' = "y_complete"
    /\ UNCHANGED <<envVars, sideVars, db, genVars, fetchVars, requests, bulk_calls>>

\* the generator returns after its terminal event
Return ==
    /\ pc \in {"y_complete", "y_error"}
    /\ pc' = "done"
    /\ UNCHANGED <<envVars, sideVars, db, events, genVars, fetchVars, requests, bulk_calls>>

\* the consumer is gone: the WSGI server stops iterating the response and
\* closes the generator, which ends at the yield it is suspended at
\* (GeneratorExit is no Exception; no except clause of the generator sees it)
Close ==
    /\ pc \in YieldPoints
    /\ events # <<>> /\ events[1].type = "start"
    /\ pc' = "closed"
    /\ UNCHANGED <<envVars, sideVars, db, events, genVars, fetchVars, requests, bulk_calls>>

-----------------------------------------------------------------------------

Next ==
    \/ Start
    \/ StatusFetching
    \/ CallFetch
    \/ \E i \in 1..Cardinality(StoreSlots) : WorkerStart(i)
    \/ \E i \in 1..Cardinality(StoreSlots) : SendRequest(i)
    \/ \E i \in 1..Cardinality(StoreSlots) : ReceivePage(i)
    \/ \E i \in 1..Cardinality(StoreSlots) : RequestFails(i)
    \/ \E i \in 1..Cardinality(StoreSlots) : MergeResult(i)
    \/ FetchReturn
    \/ ReportFailedStores
    \/ ProcessProduct
    \/ BulkUpdateCommits
    \/ BulkUpdateRaises
    \/ Complete
    \/ Return
    \/ Close

Spec == Init /\ [][Next]_vars

-----------------------------------------------------------------------------
(* What the stores hold, for the statements about the aggregate *)

RECURSIVE ItemQuantity(_, _)
ItemQuantity(items, sku) ==
    IF items = <<>> THEN 0
    ELSE (IF Head(items).sku = sku THEN Head(items).quantity ELSE 0)
         + ItemQuantity(Tail(items), sku)

\* the order carries the tag, lies in the date range and has a SKU of the run
OrderInScope(o) == OrderMatches(o, SalesOrderTag, SkusOf(products))

\* the quantity of sku over a store's orders in scope, each order counted once
RECURSIVE StoreQuantity(_, _)
StoreQuantity(orders, sku) ==
    IF orders = <<>> THEN 0
    ELSE (IF OrderInScope(Head(orders)) THEN ItemQuantity(Head(orders).items, sku) ELSE 0)
         + StoreQuantity(Tail(orders), sku)

FailedNames(result) ==
    {result.stores_failed[k].store : k \in 1..Len(result.stores_failed)}

\* sum over the stores the result reports as successful
RECURSIVE ExpectedSales(_, _, _)
ExpectedSales(result, sku, i) ==
    IF i = 0 THEN 0
    ELSE (IF stores[i].name \notin FailedNames(result)
          THEN StoreQuantity(shop[stores[i].url], sku) ELSE 0)
         + ExpectedSales(result, sku, i - 1)

SkuUniverse(result) ==
    ({"A", "B"} \cup DOMAIN result.sales_by_sku \cup Range(SkusOf(products))) \ {""}

RequestFailed(i) ==
    \E k \in 1..Len(requests[i]) : requests[i][k].outcome = "failed"

\* a request of future i failed after an earlier request of it returned a page
FailedAfterPage(i) ==
    \E k \in 1..Len(requests[i]) :
        /\ requests[i][k].outcome = "failed"
        /\ \E j \in 1..(k - 1) : requests[i][j].outcome = "page"

\* key-wise sum of the results of the futures in S
RECURSIVE SumOfResults(_)
SumOfResults(S) ==
    IF S = {} THEN EmptyDict
    ELSE LET j == CHOOSE x \in S : TRUE
         IN  MergeInto(SumOfResults(S \ {j}), worker[j].result[1].sales)

\* the fetch went through its checks and has SKUs to ask for
FetchHasWork == FetchRaises(settings) = "no" /\ SkusOf(products) # <<>>

-----------------------------------------------------------------------------
(* Claims *)

\* C1: after fetch_sales_data_from_stores returns, sales_by_sku[sku] is, for
\* every SKU, the sum over the stores reported as successful of the quantities
\* of that SKU in the store's orders matching the tag and date filter, each
\* matching order counted once, also with several SKU batches. Stated for the
\* runs in which every request succeeded.
C1_AggregateIsSumOverStores ==
    (sales_result # None /\ \A i \in DOMAIN requests : ~RequestFailed(i)) =>
        \A sku \in SkuUniverse(sales_result[1]) :
            Get(sales_result[1].sales_by_sku, sku, 0)
                = ExpectedSales(sales_result[1], sku, Len(stores))

\* C2: when a page request to one store fails after that store returned a
\* page, stores_failed holds exactly that store and the aggregate is the
\* key-wise sum of the other stores' results.
C2_FailedStoreIsDiscarded ==
    (sales_result # None /\ Len(stores) >= 2) =>
        \A i \in DOMAIN requests :
            (FailedAfterPage(i) /\ \A j \in DOMAIN requests \ {i} : ~RequestFailed(j)) =>
                /\ sales_result[1].stores_failed = <<[store |-> stores[i].name]>>
                /\ \A sku \in SkuUniverse(sales_result[1]) :
                      Get(sales_result[1].sales_by_sku, sku, 0)
                          = Get(SumOfResults(DOMAIN requests \ {i}), sku, 0)

\* C3: when the consumer disconnects after the start event, the run still
\* performs its bulk database write.
C3_DisconnectedRunStillWrites ==
    (pc = "closed" /\ FetchHasWork) => bulk_calls # <<>>

-----------------------------------------------------------------------------
(* The event sequence and the product store, for the statements about them *)

Positions(type) == {k \in 1..Len(events) : events[k].type = type}

Terminals == Positions("complete") \cup Positions("error")

LastEvent == events[Len(events)]

\* the bulk update was called and committed / was called and raised
BulkCommitted == bulk_calls # <<>> /\ events[bulk_calls[1] + 1].type = "status"
BulkFailed == bulk_calls # <<>> /\ events[bulk_calls[1] + 1].type = "error"

\* the table the run leaves when all_updates is written to the table it found
TableWritten == ExecuteMany(db_before, all_updates, Len(all_updates))

Stored(table, id) ==
    LET i == CHOOSE j \in 1..Len(table) : table[j].id = id
    IN  table[i].quantity_sold_last_month

UpdatesOf(id) == {all_updates[k][2] : k \in {j \in 1..Len(all_updates) : all_updates[j][1] = id}}

\* the aggregated quantity the loop reads for a product
RawQuantity(p) == Get(sales_result[1].sales_by_sku, p.upc_barcode, 0)

CaseSize(p) == IF p.quantity_per_case = None THEN 0 ELSE p.quantity_per_case[1]

\* the smallest multiple of q that is >= r
SmallestMultiple(q, r) ==
    CHOOSE m \in r..(r + q) : m % q = 0 /\ \A n \in r..(m - 1) : n % q # 0

TagBlank ==
    \/ settings.sales_order_tag = None
    \/ \A k \in 1..Len(settings.sales_order_tag[1]) : settings.sales_order_tag[1][k] = " "

NoStoreConfigured ==
    \A i \in StoreSlots :
        ~(Truthy(settings.store[i].url) /\ Truthy(settings.store[i].token))

NoRequestSent == \A i \in DOMAIN requests : requests[i] = <<>>

\* C4 as claimed: a run that reaches complete has called bulk_update_sales
\* exactly once, after the last progress event and before complete, and the
\* product store was written by nothing else.
C4_BulkUpdateExactlyOnce ==
    Positions("complete") # {} =>
        /\ Len(bulk_calls) = 1
        /\ \A k \in Positions("progress") : k <= bulk_calls[1]
        /\ \A k \in Positions("complete") : k > bulk_calls[1]
        /\ db = TableWritten

\* C4, amended: a run that reaches complete has called bulk_update_sales
\* exactly once when it collected at least one update and not at all when it
\* collected none; the call comes after the last progress event and before
\* complete; the product store is untouched before the call and holds
\* exactly the collected updates after it.
C4_BulkUpdateOnceIfUpdates ==
    /\ bulk_calls = <<>> => db = db_before
    /\ Positions("complete") # {} =>
        /\ Len(bulk_calls) = (IF all_updates # <<>> THEN 1 ELSE 0)
        /\ bulk_calls # <<>> =>
              /\ \A k \in Positions("progress") : k <= bulk_calls[1]
              /\ \A k \in Positions("complete") : k > bulk_calls[1]
        /\ db = TableWritten

C4_Witness ==
    /\ Positions("complete") # {}
    /\ Len(bulk_calls) = 1
    /\ Cardinality(Positions("progress")) >= 2
    /\ db # db_before

\* C5: with sales_order_tag missing, empty or blank, or with no store that has
\* URL and token, the run sends no request and writes nothing; its events hold
\* no complete and at most one error, and the finished run ends with one error.
C5_ConfigErrorIsTerminal ==
    (TagBlank \/ NoStoreConfigured) =>
        /\ NoRequestSent
        /\ bulk_calls = <<>>
        /\ db = db_before
        /\ Positions("complete") = {}
        /\ Cardinality(Positions("error")) <= 1
        /\ pc = "done" =>
              /\ LastEvent.type = "error"
              /\ Cardinality(Positions("error")) = 1

C5_Witness ==
    /\ TagBlank
    /\ settings.sales_order_tag # None
    /\ ~NoStoreConfigured
    /\ SkusOf(products) # <<>>
    /\ \E i \in StoreSlots : shop[StoreUrl[i]] # <<>>
    /\ pc = "done"
    /\ Len(events) = 3

C7_RoundsUpToFullCase ==
    \A k \in 1..idx :
        LET p == products[k]
            r == RawQuantity(p)
            want == IF CaseSize(p) > 0 THEN SmallestMultiple(CaseSize(p), r) ELSE r
        IN  (p.upc_barcode # "" /\ r > 0) =>
                /\ UpdatesOf(p.id) = {want}
                /\ BulkCommitted => Stored(db, p.id) = Some(want)

C7_Witness ==
    /\ BulkCommitted
    /\ \E k \in 1..idx :
          /\ RawQuantity(products[k]) > 0
          /\ CaseSize(products[k]) > 0
          /\ RawQuantity(products[k]) % CaseSize(products[k]) # 0
    /\ \E k \in 1..idx :
          /\ RawQuantity(products[k]) > 0
          /\ products[k].upc_barcode # ""
          /\ CaseSize(products[k]) = 0

\* C8: a product with a SKU and an aggregated quantity of 0 is counted in
\* not_found and listed in not_found_products, and its update with the
\* fallback quantity (quantity_per_case if > 0, else 0) is part of the bulk write.
C8_NotFoundStillUpdated ==
    /\ not_found_count =
          Cardinality({k \in 1..idx : products[k].upc_barcode # ""
                                        /\ RawQuantity(products[k]) = 0})
    /\ \A k \in 1..idx :
          LET p == products[k]
              fallback == IF CaseSize(p) > 0 THEN CaseSize(p) ELSE 0
          IN  (p.upc_barcode # "" /\ RawQuantity(p) = 0) =>
                  /\ p.upc_barcode \in Range(not_found_products)
                  /\ UpdatesOf(p.id) = {fallback}
                  /\ BulkCommitted => Stored(db, p.id) = Some(fallback)
    /\ \A k \in Positions("complete") : events[k].not_found = not_found_count

C8_Witness ==
    /\ BulkCommitted
    /\ Positions("complete") # {}
    /\ \E k \in 1..idx :
          /\ products[k].upc_barcode # ""
          /\ RawQuantity(products[k]) = 0
          /\ CaseSize(products[k]) > 0

C10_FailedWriteLeavesStore ==
    BulkFailed =>
        /\ db = db_before
        /\ Len(bulk_calls) = 1
        /\ Len(events) = bulk_calls[1] + 1
        /\ Positions("error") = {Len(events)}
        /\ Positions("complete") = {}

C10_Witness ==
    /\ BulkFailed
    /\ pc = "done"
    /\ Len(all_updates) >= 2
    /\ TableWritten # db_before

-----------------------------------------------------------------------------
(* The fetch tasks, for the statements about their order and their results *)

\* the task of future i ran to its end over all SKU batches and was consumed
TaskEnded(i) ==
    /\ worker[i].st = "done"
    /\ ~worker[i].inflight
    /\ worker[i].batch = Len(sku_batches)
    /\ \A k \in 1..Len(requests[i]) : requests[i][k].outcome # "pending"
    /\ i \in merged

\* the product loop has begun: an event, a counter or an update of it exists
ProductWorkBegun == Positions("progress") # {} \/ idx > 0 \/ all_updates # <<>>

\* the quantity the loop derives for product p from the aggregate agg
QuantityFrom(agg, p) ==
    IF Get(agg, p.upc_barcode, 0) > 0
    THEN OrderQuantity(Get(agg, p.upc_barcode, 0), CaseSize(p))
    ELSE FallbackQuantity(CaseSize(p))

\* C11: no progress event is emitted and no order quantity is computed before
\* every store's fetch task has ended over all SKU batches and was merged; the
\* aggregate the loop reads is the final merged one, and every collected
\* quantity is derived from it.
C11_ProductsAfterFinalAggregate ==
    ProductWorkBegun =>
        /\ sales_result # None
        /\ \A i \in DOMAIN worker : TaskEnded(i)
        /\ sales_result[1].sales_by_sku = total_sales_by_sku
        /\ total_sales_by_sku = SumOfResults(DOMAIN worker)
        /\ \A k \in 1..idx :
              products[k].upc_barcode # "" =>
                  UpdatesOf(products[k].id) = {QuantityFrom(total_sales_by_sku, products[k])}

C11_Witness ==
    /\ Positions("progress") # {}
    /\ Len(stores) = 2
    /\ Len(sku_batches) = 2
    /\ \A i \in DOMAIN worker : Get(worker[i].result[1].sales, "A", 0) > 0
    /\ \E k \in 1..idx : Get(total_sales_by_sku, products[k].upc_barcode, 0) > 0

-----------------------------------------------------------------------------
(* The thread pool with more tasks than threads: fetch_sales_data_from_stores *)
(* is handed a settings dict in which all six store slots carry URL and      *)
(* token, so that six tasks are submitted to the pool of max_workers threads *)

\* the run's own variables before its first step
FreshRun ==
    /\ pc = "init"
    /\ events = <<>>
    /\ products = <<>>
    /\ sales_result = None
    /\ idx = 0
    /\ all_updates = <<>>
    /\ synced_count = 0
    /\ not_found_count = 0
    /\ not_found_products = <<>>
    /\ reported = 0
    /\ stores = <<>>
    /\ sku_batches = <<>>
    /\ worker = <<>>
    /\ merged = {}
    /\ total_sales_by_sku = EmptyDict
    /\ failed_stores = <<>>
    /\ requests = <<>>
    /\ bulk_calls = <<>>
    /\ db_before = db

SixStores ==
    [sales_order_tag |-> Some(<<"t">>),
     store |-> [i \in StoreSlots |-> [url |-> Some(StoreUrl[i]), token |-> Some("shpat")]]]

InitPool ==
    /\ settings = SixStores
    /\ product_ids_param = <<>>
    /\ db = <<ProductRow(1, "A", Some(4))>>
    /\ shop = [u \in Urls |-> <<>>]
    /\ FreshRun
    /\ SideIdle

\* a step of a pool thread: it takes a queued task, or the task it runs sends
\* its next request or gets that request's outcome
PoolStep ==
    \E i \in StoreSlots :
        WorkerStart(i) \/ SendRequest(i) \/ ReceivePage(i) \/ RequestFails(i)

\* the pool does not stand still while a thread has something to do: threads
\* are scheduled, and every request returns or fails (requests.post(...,
\* timeout=30))
PoolThreadsRun == WF_vars(PoolStep)

SpecPool == InitPool /\ [][Next]_vars /\ PoolThreadsRun

\* C12: at every instant at most max_workers = 5 fetch tasks are executing,
\* also with six stores; when all six tasks have been started, one of them
\* has finished; and every submitted task is eventually run.
C12_AtMostFiveAndAllRun ==
    /\ [](/\ Cardinality(Running) <= max_workers
          /\ (\A i \in DOMAIN worker : worker[i].st # "queued") =>
                 Cardinality({i \in DOMAIN worker : worker[i].st = "done"})
                     >= Len(worker) - max_workers)
    /\ (worker # <<>>)
          ~> (worker # <<>> /\ \A i \in DOMAIN worker : worker[i].st \in {"running", "done"})

C12_Witness ==
    /\ Len(worker) = 6
    /\ Cardinality(Running) = max_workers
    /\ \E i \in DOMAIN worker : worker[i].st = "done"
    /\ \A i \in DOMAIN worker : worker[i].st # "queued"

-----------------------------------------------------------------------------
(* The merge of the store results *)

\* the SKUs the results of the futures in S hold
KeysIn(S) == UNION {DOMAIN worker[j].result[1].sales : j \in S}

\* the quantities the results of the futures in S hold for sku, added up
RECURSIVE QuantityIn(_, _)
QuantityIn(S, sku) ==
    IF S = {} THEN 0
    ELSE LET j == CHOOSE x \in S : TRUE
         IN  Get(worker[j].result[1].sales, sku, 0) + QuantityIn(S \ {j}, sku)

\* C13: the aggregate depends on the store results alone, not on the order in
\* which the tasks complete and are merged: whatever that order, after any
\* number of merges total_sales_by_sku is the key-wise sum of the results
\* merged so far, and the returned sales_by_sku is the key-wise sum of all.
C13_MergeOrderIrrelevant ==
    /\ DOMAIN total_sales_by_sku = KeysIn(merged)
    /\ \A sku \in KeysIn(merged) : total_sales_by_sku[sku] = QuantityIn(merged, sku)
    /\ (sales_result # None /\ worker # <<>>) =>
          /\ merged = DOMAIN worker
          /\ sales_result[1].sales_by_sku = total_sales_by_sku

\* the second store's task completed and was merged before the first one's,
\* and the two results differ on a SKU both hold
C13_Witness ==
    /\ pc = "fetching"
    /\ Len(worker) = 2
    /\ merged = {2}
    /\ worker[1].st = "done"
    /\ "A" \in DOMAIN worker[1].result[1].sales
    /\ "A" \in DOMAIN worker[2].result[1].sales
    /\ worker[1].result[1].sales["A"] # worker[2].result[1].sales["A"]

-----------------------------------------------------------------------------
(* The run up to the submission of the store tasks, over settings in which   *)
(* every store slot varies and over tables of up to two full SKU batches and *)
(* one more row: the stores list and the SKU batches as functions of their   *)
(* inputs                                                                   *)

\* one store slot: unset, token without URL, empty URL, URL with empty token,
\* URL and token
WideSlotValues(i) ==
    <<[url |-> None, token |-> None],
      [url |-> None, token |-> Some("shpat")],
      [url |-> Some(""), token |-> Some("shpat")],
      [url |-> Some(StoreUrl[i]), token |-> Some("")],
      [url |-> Some(StoreUrl[i]), token |-> Some("shpat")]>>

WideSettings ==
    {[sales_order_tag |-> Some(<<"t">>),
      store |-> [i \in StoreSlots |-> WideSlotValues(i)[c[i]]]] :
        c \in [StoreSlots -> 1..Len(WideSlotValues(1))]}

\* n rows with SKUs of their own, row e (if any) with an empty SKU
LongTable(n, e) ==
    [i \in 1..n |->
        ProductRow(200 + i, IF i = e THEN "" ELSE "Q" \o ToString(i), Some(0))]

LongTables == {LongTable(n, e) : n \in 0..(2 * batch_size + 1), e \in 0..(2 * batch_size + 1)}

MainStoreOnly ==
    [sales_order_tag |-> Some(<<"t">>),
     store |-> [i \in StoreSlots |->
                  IF i = 1 THEN [url |-> Some(StoreUrl[i]), token |-> Some("shpat")]
                  ELSE [url |-> None, token |-> None]]]

InitSubmit ==
    /\ \/ settings \in WideSettings /\ db = <<ProductRow(1, "A", Some(4))>>
       \/ settings = MainStoreOnly /\ db \in LongTables
    /\ product_ids_param = <<>>
    /\ shop = [u \in Urls |-> <<>>]
    /\ FreshRun
    /\ SideIdle

NextSubmit == Start \/ StatusFetching \/ CallFetch

SpecSubmit == InitSubmit /\ [][NextSubmit]_vars

\* the slot carries a URL and a token, both non-empty
SlotSet(row, i) ==
    /\ row.store[i].url # None /\ row.store[i].url[1] # ""
    /\ row.store[i].token # None /\ row.store[i].token[1] # ""

SlotOf(name) == CHOOSE i \in StoreSlots : StoreName(i) = name

\* fetch_sales_data_from_stores has resolved its stores and gone on
StoresResolved == pc \in {"fetching", "y_fetched"}

\* C14: the resolved store list holds the main store iff its URL and token are
\* both non-empty and numbered store i (2..6) iff its URL and token are both
\* non-empty, each with its own URL and token; the main store comes first and
\* the numbered stores follow in ascending index; the list has at most 6
\* entries and no slot appears twice. With no slot set the call raises.
C14_StoresResolvedInSlotOrder ==
    /\ StoresResolved =>
          /\ \A i \in StoreSlots :
                SlotSet(settings, i) <=>
                    \E k \in 1..Len(stores) : stores[k].name = StoreName(i)
          /\ \A k \in 1..Len(stores) :
                /\ \E i \in StoreSlots : stores[k].name = StoreName(i)
                /\ stores[k].url = settings.store[SlotOf(stores[k].name)].url[1]
                /\ stores[k].token = settings.store[SlotOf(stores[k].name)].token[1]
          /\ \A k, l \in 1..Len(stores) :
                k < l => SlotOf(stores[k].name) < SlotOf(stores[l].name)
          /\ Len(stores) <= 6
    /\ (pc = "y_error" /\ Len(events) = 3 /\ ~TagBlank) =>
          \A i \in StoreSlots : ~SlotSet(settings, i)

C14_Witness ==
    /\ StoresResolved
    /\ ~SlotSet(settings, 1) /\ settings.store[1].url # None
    /\ settings.store[2].token = Some("")
    /\ SlotSet(settings, 3)
    /\ SlotSet(settings, 6)
    /\ Len(stores) = 2

-----------------------------------------------------------------------------
(* The SKU batches *)

RECURSIVE Flatten(_)
Flatten(seqs) == IF seqs = <<>> THEN <<>> ELSE Head(seqs) \o Flatten(Tail(seqs))

\* the non-empty SKUs of the run's products, in product order
NonEmptySkus ==
    LET ps == SelectSeq(products, LAMBDA p : p.upc_barcode # "")
    IN  [i \in 1..Len(ps) |-> ps[i].upc_barcode]

\* C17: the SKU batches, concatenated in order, are the non-empty SKUs of the
\* run's products in product order, none dropped and none duplicated; every
\* batch holds between 1 and batch_size = 50 SKUs and every batch except the
\* last holds exactly 50. (A run without SKUs builds no batch.)
C17_BatchesPartitionSkus ==
    StoresResolved =>
        /\ Flatten(sku_batches) = NonEmptySkus
        /\ \A k \in 1..Len(sku_batches) :
              /\ Len(sku_batches[k]) >= 1
              /\ Len(sku_batches[k]) <= batch_size
              /\ k < Len(sku_batches) => Len(sku_batches[k]) = batch_size

\* two full batches from a table that also holds a row without SKU
C17_Witness ==
    /\ pc = "fetching"
    /\ Len(products) = 2 * batch_size + 1
    /\ \E k \in 1..batch_size : products[k].upc_barcode = ""
    /\ Len(sku_batches) = 2
    /\ Len(sku_batches[2]) = batch_size

-----------------------------------------------------------------------------
(* Requests after a failure *)

\* C15: no request is re-issued after it fails, and once a request to a store
\* has failed no further request is sent to that store in the run: a failed
\* request is the last request of its store, and no later request of the
\* store repeats it (same SKU batch, same cursor).
C15_FailureIsTerminalForStore ==
    \A i \in DOMAIN requests :
        \A k \in 1..Len(requests[i]) :
            requests[i][k].outcome = "failed" =>
                /\ k = Len(requests[i])
                /\ \A l \in (k + 1)..Len(requests[i]) :
                      ~(/\ requests[i][l].batch = requests[i][k].batch
                        /\ requests[i][l].cursor = requests[i][k].cursor)

-----------------------------------------------------------------------------
(* Pagination: the requests of one call of get_sales_by_skus_and_tag are the *)
(* requests of one future for one SKU batch                                  *)

\* request k of future i is not the first request of its call
FollowsInCall(i, k) == k > 1 /\ requests[i][k - 1].batch = requests[i][k].batch

-----------------------------------------------------------------------------
(* The product loop: one progress event per product *)

\* the positions of the progress events for product k of the run
ProgressOf(k) == {e \in Positions("progress") : events[e].current = k}

\* the positions of the progress events that count a product as synced or as
\* not found
Counted == {e \in Positions("progress") : events[e].status \in {"synced", "not_found"}}

\* C18: a product without a SKU gets exactly one progress event, with status
\* skipped, when the loop reaches it and none before; its SKU is in no SKU
\* batch sent to a store; no update is collected or written for it; and it is
\* counted in neither synced nor not_found: the two counters add up to the
\* number of synced and not_found events, each of them for a product with a
\* SKU.
C18_NoSkuMeansSkipped ==
    /\ \A k \in 1..Len(products) :
          products[k].upc_barcode = "" =>
              /\ Cardinality(ProgressOf(k)) = (IF k <= idx THEN 1 ELSE 0)
              /\ \A e \in ProgressOf(k) : events[e].status = "skipped"
              /\ UpdatesOf(products[k].id) = {}
              /\ Stored(db, products[k].id) = Stored(db_before, products[k].id)
    /\ "" \notin Range(Flatten(sku_batches))
    /\ synced_count + not_found_count = Cardinality(Counted)
    /\ \A e \in Counted : products[events[e].current].upc_barcode # ""
    /\ \A e \in Positions("complete") :
          events[e].synced + events[e].not_found = Cardinality(Counted)

C18_Witness ==
    /\ pc = "done"
    /\ BulkCommitted
    /\ Positions("complete") # {}
    /\ \E i \in DOMAIN requests : requests[i] # <<>>
    /\ \E k \in 1..Len(products) : products[k].upc_barcode = ""
    /\ synced_count = 1

-----------------------------------------------------------------------------
(* Runs over tables that also hold rows whose quantity_per_case is a text:   *)
(* processing such a row raises inside the loop's try block                  *)

\* the rows of FreeRows, a row with a SKU that no order carries, and text
\* rows with SKUs that are sold and with the SKU that is not
CaseRows ==
    FreeRows \cup {ProductRow(4, "C", Some(3)),
                   TextCaseRow(1, "A"), TextCaseRow(2, "B"), TextCaseRow(4, "C")}

CaseTables ==
    UNION {{t \in [1..n -> CaseRows] :
              \A i, j \in 1..n : i < j => t[i].id < t[j].id} : n \in 0..(MaxProducts + 2)}

InitCase ==
    /\ settings = MainStoreOnly
    /\ product_ids_param = <<>>
    /\ db \in CaseTables
    /\ shop \in Shops(settings)
    /\ FreshRun
    /\ SideIdle

SpecCase == InitCase /\ [][Next]_vars

\* processing product k of the run raises
Raises(k) == products[k].upc_barcode # "" /\ products[k].quantity_per_case_type = "str"

\* what the claims C19 as claimed and amended share: the product that raises
\* gets exactly one progress event, with status error, when the loop reaches
\* it, and no update; the loop goes on: a run that reaches the bulk write or
\* complete has handled every product, each with a progress event
ErrorIsContained ==
    /\ \A k \in 1..Len(products) :
          Raises(k) =>
              /\ Cardinality(ProgressOf(k)) = (IF k <= idx THEN 1 ELSE 0)
              /\ \A e \in ProgressOf(k) : events[e].status = "error"
              /\ UpdatesOf(products[k].id) = {}
              /\ Stored(db, products[k].id) = Stored(db_before, products[k].id)
    /\ (bulk_calls # <<>> \/ Positions("complete") # {}) =>
          /\ idx = Len(products)
          /\ \A k \in 1..Len(products) : ProgressOf(k) # {}

SomeProductRaises == \E k \in 1..Len(products) : Raises(k)

\* C19 as claimed: when processing a product raises, that product gets one
\* progress event with status error and no update, every later product is
\* still processed, the bulk write still takes place and the run, unless the
\* bulk write itself fails, ends with complete.
C19_ErrorProductWriteStillDone ==
    /\ ErrorIsContained
    /\ (SomeProductRaises /\ pc = "done") =>
          /\ Len(bulk_calls) = 1
          /\ ~BulkFailed => LastEvent.type = "complete"

\* C19, amended: as claimed, but the bulk write takes place exactly when some
\* other product yielded an update: once if all_updates is not empty, not at
\* all if it is empty, and then the run ends with complete at once.
C19_ErrorProductWriteIfUpdates ==
    /\ ErrorIsContained
    /\ (SomeProductRaises /\ pc = "done") =>
          /\ Len(bulk_calls) = (IF all_updates # <<>> THEN 1 ELSE 0)
          /\ ~BulkFailed => LastEvent.type = "complete"
          /\ BulkCommitted => db = TableWritten
          /\ ~BulkCommitted => db = db_before

\* the first product (its SKU has sales) and the last one (its SKU has none)
\* raise; the products between them are processed and the update is written
C19_Witness ==
    /\ pc = "done"
    /\ Len(products) = 4
    /\ Raises(1) /\ RawQuantity(products[1]) > 0
    /\ Raises(4) /\ RawQuantity(products[4]) = 0
    /\ BulkCommitted
    /\ Len(all_updates) = 1
    /\ LastEvent.type = "complete"

\* the j-th progress event of the stream
NthProgress(j) ==
    events[CHOOSE e \in Positions("progress") :
               Cardinality({d \in Positions("progress") : d <= e}) = j]

WithStatus(status) == {e \in Positions("progress") : events[e].status = status}

\* C20: in a run that reaches complete, each product of the run gets exactly
\* one progress event; the progress events come in product order, the j-th
\* with current = j and total = the number of products; the complete event's
\* synced and not_found are the numbers of progress events with status synced
\* and not_found, and synced + not_found + skipped + error = total.
C20_OneProgressEventPerProduct ==
    \A c \in Positions("complete") :
        /\ \A k \in 1..Len(products) : Cardinality(ProgressOf(k)) = 1
        /\ Cardinality(Positions("progress")) = Len(products)
        /\ \A j \in 1..Len(products) :
              /\ NthProgress(j).current = j
              /\ NthProgress(j).total = Len(products)
        /\ \A e \in Positions("progress") : e < c
        /\ events[c].total = Len(products)
        /\ events[c].synced = Cardinality(WithStatus("synced"))
        /\ events[c].not_found = Cardinality(WithStatus("not_found"))
        /\ events[c].synced + events[c].not_found
              + Cardinality(WithStatus("skipped")) + Cardinality(WithStatus("error"))
              = events[c].total

\* a completed run with a product of each status
C20_Witness ==
    /\ Positions("complete") # {}
    /\ Len(products) = 4
    /\ \A st \in {"synced", "not_found", "skipped", "error"} : WithStatus(st) # {}

-----------------------------------------------------------------------------
(* ShopifyAPI.get_sales_by_skus_and_tag called on its own, twice in a row    *)
(* with the same SKUs and tag against the same store, with or without a     *)
(* progress callback. The store answers every page with a cursor, or, when  *)
(* more pages follow, with an endCursor that is null or empty.              *)

MaxCalls == 2           \* calls made one after the other
MaxCount == 8           \* page and order counters and the histories stop growing here

Cap(n) == Min(n, MaxCount)

\* progress_callback: None, a function that returns, a function that raises
CallbackKinds == {"none", "returns", "raises"}

\* the endCursor of a response with hasNextPage true: a cursor, null, ''
EndCursorKinds == {"cursor", "null", "empty"}

Servers == {[orders |-> o, endCursor |-> e] : o \in OrderLists, e \in EndCursorKinds}

\* the 'orders' connection the store returns for one request
ServerResponse(srv, order_tag, skus, cursor) ==
    LET conn == OrdersConnection(srv.orders, order_tag, skus, cursor)
    IN  IF conn.pageInfo.hasNextPage /\ srv.endCursor # "cursor"
        THEN [conn EXCEPT !.pageInfo.endCursor =
                  IF srv.endCursor = "null" THEN None ELSE Some(0)]
        ELSE conn

\* the locals of get_sales_by_skus_and_tag when the page loop is entered
NewCall(progress_callback) ==
    [skus |-> <<"A">>, order_tag |-> <<"t">>, progress_callback |-> progress_callback,
     pc |-> "loop", sales_by_sku |-> EmptyDict, cursor |-> None,
     has_next_page |-> TRUE, page_num |-> 0, total_orders_processed |-> 0]

NewCallLog(progress_callback) ==
    [progress_callback |-> progress_callback, requests |-> <<>>, callbacks |-> <<>>,
     result |-> None]

\* the history of the running call, as long as it has room
Logged(log, field, entry) ==
    [log EXCEPT ![Len(log)][field] = IF Len(@) < MaxCount THEN Append(@, entry) ELSE @]

\* the quantities stop growing at MaxCount
CapAll(sales_by_sku) == [k \in DOMAIN sales_by_sku |-> Cap(sales_by_sku[k])]

InitClient ==
    /\ server \in Servers
    /\ \E cb \in CallbackKinds : call = NewCall(cb) /\ calls = <<NewCallLog(cb)>>
    /\ payload = <<>> /\ sync = <<>> /\ catalog = <<>> /\ sync_log = <<>>
    /\ quotations = <<>> /\ req = <<>> /\ now = 0
    /\ settings = MainStoreOnly
    /\ product_ids_param = <<>>
    /\ db = <<>>
    /\ shop = [u \in Urls |-> <<>>]
    /\ FreshRun

runVars == <<envVars, db, pc, events, genVars, fetchVars, requests, bulk_calls>>
clientRest == <<server, payload, sync, catalog, sync_log, quotations, req, now, runVars>>

\* 'while has_next_page:' is entered once more: the request goes out
ClientSend ==
    /\ call # <<>>
    /\ call.pc = "loop"
    /\ call.has_next_page
    /\ call' = [call EXCEPT !.pc = "inflight"]
    /\ UNCHANGED <<calls, clientRest>>

\* the response arrives: its orders are counted and added, the callback (if
\* any) is called, pageInfo is read. An exception of the callback is raised
\* inside the try block: the except clause prints and breaks.
ClientPage ==
    /\ call # <<>>
    /\ call.pc = "inflight"
    /\ LET conn == ServerResponse(server, call.order_tag, call.skus, CursorVariable(call))
           page_num == Cap(call.page_num + 1)
           total_orders_processed == Cap(call.total_orders_processed + Len(conn.edges))
           sales_by_sku == CapAll(ProcessPage(call.sales_by_sku, conn.edges))
           counted == [call EXCEPT !.page_num = page_num,
                                   !.total_orders_processed = total_orders_processed,
                                   !.sales_by_sku = sales_by_sku]
           sent == Logged(calls, "requests",
                          [cursor |-> CursorVariable(call), outcome |-> "page"])
           called == Logged(sent, "callbacks", <<page_num, total_orders_processed>>)
       IN  IF call.progress_callback = "raises"
           THEN /\ call' = [counted EXCEPT !.pc = "broke"]
                /\ calls' = called
           ELSE /\ call' = [counted EXCEPT !.pc = "loop",
                                           !.has_next_page = conn.pageInfo.hasNextPage,
                                           !.cursor = conn.pageInfo.endCursor]
                /\ calls' = IF call.progress_callback = "returns" THEN called ELSE sent
    /\ UNCHANGED clientRest

\* _execute_query raises: the except clause prints and breaks
ClientFails ==
    /\ call # <<>>
    /\ call.pc = "inflight"
    /\ call' = [call EXCEPT !.pc = "broke"]
    /\ calls' = Logged(calls, "requests",
                       [cursor |-> CursorVariable(call), outcome |-> "failed"])
    /\ UNCHANGED clientRest

\* the loop has ended, by its condition or by break: return sales_by_sku
ClientReturn ==
    /\ call # <<>>
    /\ \/ call.pc = "broke"
       \/ call.pc = "loop" /\ ~call.has_next_page
    /\ call' = [call EXCEPT !.pc = "returned"]
    /\ calls' = [calls EXCEPT ![Len(calls)].result = Some(call.sales_by_sku)]
    /\ UNCHANGED clientRest

\* the caller calls again, with the same SKUs, tag and dates
CallAgain ==
    /\ call # <<>>
    /\ call.pc = "returned"
    /\ Len(calls) < MaxCalls
    /\ \E cb \in CallbackKinds :
          /\ call' = NewCall(cb)
          /\ calls' = Append(calls, NewCallLog(cb))
    /\ UNCHANGED clientRest

NextClient == ClientSend \/ ClientPage \/ ClientFails \/ ClientReturn \/ CallAgain

SpecClient == InitClient /\ [][NextClient]_vars

\* the calling thread runs, and every request returns or fails
\* (requests.post(..., timeout=30))
SpecClientFair == InitClient /\ [][NextClient]_vars /\ WF_vars(NextClient)

\* call a has returned
Returned(a) == calls[a].result # None

\* no request of call a failed
AllAnswered(a) ==
    \A k \in 1..Len(calls[a].requests) : calls[a].requests[k].outcome = "page"

\* C21: the callback is invoked exactly once after each processed page, with
\* page numbers 1, 2, 3, ... and a non-decreasing cumulative order count, and
\* never when none is supplied; and two calls in which every request was
\* answered issue the same requests and return the same aggregate, whether or
\* not a callback was supplied and whatever it did.
C21_CallbackOnlyObserves ==
    /\ \A a \in 1..Len(calls) :
          LET log == calls[a]
              pages == {k \in 1..Len(log.requests) : log.requests[k].outcome = "page"}
          IN  /\ Len(log.callbacks) =
                    (IF log.progress_callback = "none" THEN 0 ELSE Cardinality(pages))
              /\ \A j \in 1..Len(log.callbacks) :
                    /\ log.callbacks[j][1] = j
                    /\ j > 1 => log.callbacks[j][2] >= log.callbacks[j - 1][2]
    /\ \A a, b \in 1..Len(calls) :
          (Returned(a) /\ Returned(b) /\ AllAnswered(a) /\ AllAnswered(b)) =>
              /\ calls[a].requests = calls[b].requests
              /\ calls[a].result = calls[b].result

\* C22: two calls with the same SKUs, tag and dates against the unchanged
\* store (here: both without a callback) return the same map.
C22_SameMapBothTimes ==
    \A a, b \in 1..Len(calls) :
        (/\ Returned(a) /\ Returned(b)
         /\ calls[a].progress_callback = "none"
         /\ calls[b].progress_callback = "none") =>
            calls[a].result = calls[b].result

\* C26: every call terminates: no request follows a failed request or a
\* response with hasNextPage false, and every call that was begun returns,
\* also when the store answers hasNextPage true with a null or empty endCursor.
C26_EveryCallTerminates ==
    /\ [](\A a \in 1..Len(calls) :
            \A k \in 1..(Len(calls[a].requests) - 1) :
                calls[a].requests[k].outcome = "page")
    /\ \A n \in 1..MaxCalls :
          (Len(calls) = n) ~> (Len(calls) >= n /\ Returned(n))

-----------------------------------------------------------------------------
(* C23: a run with product_ids *)

IdsSupplied == product_ids_param # <<>> /\ ParamParses(product_ids_param)

Listed(id) == id \in ProductIds(product_ids_param)

ListedRows == {db_before[k] : k \in {j \in DOMAIN db_before : Listed(db_before[j].id)}}

\* C23: when product_ids is supplied, the products of the run (those that get
\* progress events) are rows whose id is in the list, every SKU queried is the
\* SKU of such a row, every update of the bulk update is for such a row, and
\* the stored row of every other product stays as it was before the run
C23_OnlyListedProductsTouched ==
    IdsSupplied =>
       /\ \A k \in DOMAIN products : products[k] \in ListedRows
       /\ \A k \in Positions("progress") : events[k].current \in DOMAIN products
       /\ \A b \in DOMAIN sku_batches :
             Range(sku_batches[b]) \subseteq {r.upc_barcode : r \in ListedRows}
       /\ \A i \in DOMAIN requests : \A k \in DOMAIN requests[i] :
             requests[i][k].batch \in DOMAIN sku_batches
       /\ \A k \in DOMAIN all_updates : Listed(all_updates[k][1])
       /\ \A k \in DOMAIN db : ~Listed(db[k].id) => db[k] = db_before[k]

\* a run for product 1 of a table that holds another product with a SKU: a
\* request was sent and the bulk update has changed the table
C23_Witness ==
    /\ IdsSupplied
    /\ \E k \in DOMAIN db_before :
          ~Listed(db_before[k].id) /\ db_before[k].upc_barcode # ""
    /\ \E i \in DOMAIN requests : requests[i] # <<>>
    /\ Positions("progress") # {}
    /\ pc = "y_updated"
    /\ db # db_before

-----------------------------------------------------------------------------
(* C24: who writes the shared aggregate *)

\* C24: every step that changes total_sales_by_sku or failed_stores is a step
\* of the as_completed loop, which takes the result of one task that has
\* ended and changes no task's state; a step of a task changes the state of
\* that task only
C24_OnlyCoordinatorWritesShared ==
    [][ /\ (total_sales_by_sku' # total_sales_by_sku \/ failed_stores' # failed_stores)
           => /\ worker' = worker
              /\ \E i \in DOMAIN worker :
                    /\ worker[i].st = "done"
                    /\ i \notin merged
                    /\ merged' = merged \cup {i}
        /\ (worker # <<>> /\ worker' # worker)
           => /\ DOMAIN worker' = DOMAIN worker
              /\ \E i \in DOMAIN worker :
                    \A j \in DOMAIN worker \ {i} : worker'[j] = worker[j]
              /\ merged' = merged
      ]_vars

\* the result of one store is merged while the task of another still runs
C24_Witness ==
    /\ pc = "fetching"
    /\ total_sales_by_sku # EmptyDict
    /\ \E i \in merged : \E j \in DOMAIN worker :
          j # i /\ worker[j].st = "running" /\ requests[j] # <<>>

-----------------------------------------------------------------------------
(* C27: the store counters of the result *)

Succeeded == {i \in DOMAIN worker : worker[i].result # None /\ worker[i].result[1].success}

NoProductHasSku == \A k \in DOMAIN products : products[k].upc_barcode = ""

\* C27: in the result of a run with a SKU the two counters add up to the
\* number of resolved stores, each store's result was taken once, a store is
\* in stores_failed once if its task failed and not at all otherwise, and
\* stores_processed counts the others; the result of a run without SKU is
\* empty, with both counters zero, and no request was sent
C27_EveryStoreCountedOnce ==
    sales_result # None =>
        LET result == sales_result[1]
            failed == result.stores_failed
        IN  IF NoProductHasSku
            THEN /\ NoRequestSent
                 /\ result.stores_processed = 0
                 /\ failed = <<>>
                 /\ result.sales_by_sku = EmptyDict
            ELSE /\ result.stores_processed + Len(failed) = Len(stores)
                 /\ DOMAIN worker = 1..Len(stores)
                 /\ merged = DOMAIN worker
                 /\ result.stores_processed = Cardinality(Succeeded)
                 /\ \A i \in DOMAIN worker :
                       Cardinality({k \in DOMAIN failed : failed[k].store = stores[i].name})
                           = IF i \in Succeeded THEN 0 ELSE 1

\* the result of a run over two stores, one of which has no sale to report
C27_Witness ==
    /\ sales_result # None
    /\ ~NoProductHasSku
    /\ Len(stores) = 2
    /\ sales_result[1].stores_processed = 2
    /\ \E i \in DOMAIN worker : worker[i].store_sales = EmptyDict
    /\ sales_result[1].sales_by_sku # EmptyDict

-----------------------------------------------------------------------------
(* update_settings, get_settings and the next sales sync *)

\* the store slots the settings table has columns for: shopify_store_url and
\* shopify_access_token, and shopify_store_2_* .. shopify_store_5_*
StoreColumns == 1..5

UnsetSlot == [url |-> None, token |-> None]

\* the settings dicts posted: every slot with or without its URL and token
Payloads ==
    {[sales_order_tag |-> Some(<<"t">>),
      store |-> [i \in StoreSlots |->
                   IF i \in S THEN [url |-> Some(StoreUrl[i]), token |-> Some("shpat")]
                   ELSE UnsetSlot]] : S \in SUBSET StoreSlots}

\* the row after UPDATE settings SET ... WHERE id = 1, as get_settings returns
\* it (dict(row)): the columns of the statement hold the posted values, a key
\* of the posted dict that is no column is not stored, and settings.get on a
\* key the row does not have gives None
SavedRow(data) ==
    [sales_order_tag |-> data.sales_order_tag,
     store |-> [i \in StoreSlots |->
                  IF i \in StoreColumns THEN data.store[i] ELSE UnsetSlot]]

InitSettings ==
    /\ settings = [sales_order_tag |-> None, store |-> [i \in StoreSlots |-> UnsetSlot]]
    /\ product_ids_param = <<>>
    /\ db = <<ProductRow(1, "A", Some(4))>>
    /\ shop = [u \in Urls |-> <<>>]
    /\ FreshRun
    /\ SideIdle

\* POST /api/settings: database.update_settings(request.json)
UpdateSettings ==
    /\ pc = "init"
    /\ \E data \in Payloads :
          /\ payload' = <<data>>
          /\ settings' = SavedRow(data)
    /\ UNCHANGED <<product_ids_param, shop, db_before, server, call, calls, sync,
                   catalog, sync_log, quotations, req, now, db, pc, events, genVars,
                   fetchVars, requests, bulk_calls>>

NextSettings == UpdateSettings \/ Start \/ StatusFetching \/ CallFetch

SpecSettings == InitSettings /\ [][NextSettings]_vars

\* fetch_sales_data_from_stores was called and has returned, raised or gone on
FetchCalled == pc \in {"fetching", "y_fetched", "y_error"}

\* C25: once settings were saved and the sales sync has called
\* fetch_sales_data_from_stores, every store 2..6 whose URL and token were in
\* the saved settings is in the resolved store list with that URL and token
C25_SavedPairIsResolved ==
    (payload # <<>> /\ FetchCalled) =>
        \A i \in StoreSlots \ {1} :
            SlotSet(payload[1], i) =>
                \E k \in 1..Len(stores) :
                    /\ stores[k].name = StoreName(i)
                    /\ stores[k].url = payload[1].store[i].url[1]
                    /\ stores[k].token = payload[1].store[i].token[1]

-----------------------------------------------------------------------------
(* sync_products_with_all and sync_products_price: generate_progress *)

MaxCatalog == 2         \* rows of the small products tables

SyncKinds == {"inventory", "price"}

\* a products row as the two syncs use it: available_quantity and price are
\* NULL or a number
CatalogRow(id, sku) ==
    [id |-> id, upc_barcode |-> sku, available_quantity |-> Some(7), price |-> Some(7)]

\* upc_barcode is UNIQUE NOT NULL: at most one row has the empty SKU
CatalogRows == {CatalogRow(1, "A"), CatalogRow(2, "B"), CatalogRow(3, "")}

\* batch_size rows with SKUs the remote side does not know, then the row
\* without SKU, which is a batch of its own
LongCatalog ==
    [k \in 1..(batch_size + 1) |->
        CatalogRow(300 + k, IF k <= batch_size THEN "R" \o ToString(k) ELSE "")]

Catalogs ==
    {LongCatalog} \cup
    UNION {{t \in [1..n -> CatalogRows] :
              \A a, b \in 1..n : a < b => t[a].id < t[b].id} : n \in 0..MaxCatalog}

\* what the remote side holds: the available quantity per SKU of the Shopify
\* location, or the price per UPC of the ERP
Remotes ==
    {[found |-> EmptyDict],
     [found |-> [x \in {"A"} |-> 5]],
     [found |-> [x \in {"A", "B"} |-> IF x = "A" THEN 5 ELSE 0]]}

Restrict(m, keys) == [x \in (DOMAIN m) \cap keys |-> m[x]]

\* batch = products[i:i + batch_size]
Batch(ps, i) == SubSeq(ps, i + 1, Min(i + batch_size, Len(ps)))

NewSync(kind, configured) ==
    [kind |-> kind, configured |-> configured, pc |-> "init", products |-> <<>>,
     i |-> 0, j |-> 0, current_index |-> 0, results |-> EmptyDict, updates |-> <<>>,
     synced_count |-> 0, not_found_count |-> 0]

InitSync ==
    /\ catalog \in Catalogs
    /\ server \in Remotes
    /\ \E kind \in SyncKinds, configured \in BOOLEAN : sync = NewSync(kind, configured)
    /\ sync_log = [events |-> <<>>, lookups |-> <<>>, bulk |-> <<>>, before |-> catalog]
    /\ call = <<>> /\ calls = <<>> /\ payload = <<>> /\ quotations = <<>> /\ req = <<>>
    /\ now = 0
    /\ settings = MainStoreOnly
    /\ product_ids_param = <<>>
    /\ db = <<>>
    /\ shop = [u \in Urls |-> <<>>]
    /\ FreshRun

syncRest == <<server, call, calls, payload, quotations, req, now, runVars>>

Yield(e) == sync_log' = [sync_log EXCEPT !.events = Append(@, e)]

\* products = database.get_products(); yield start
SyncStart ==
    /\ sync # <<>>
    /\ sync.pc = "init"
    /\ sync' = [sync EXCEPT !.pc = "y_start", !.products = catalog]
    /\ Yield(StartEvent(Len(catalog)))
    /\ UNCHANGED <<catalog, syncRest>>

\* the client: without it (no client, no location_id, connect() raises) the
\* generator yields error and returns; with it the batch loop begins
SyncClient ==
    /\ sync # <<>>
    /\ sync.pc = "y_start"
    /\ IF sync.configured
       THEN /\ sync' = [sync EXCEPT !.pc = "batch"]
            /\ UNCHANGED sync_log
       ELSE /\ sync' = [sync EXCEPT !.pc = "returned"]
            /\ Yield(ErrorEvent)
    /\ UNCHANGED <<catalog, syncRest>>

\* the head of 'for i in range(0, len(products), batch_size)': a batch without
\* SKU goes to the loop of skipped events; otherwise the bulk lookup is made,
\* whose except clause returns {} when the request or query fails
SyncBeginBatch ==
    /\ sync # <<>>
    /\ sync.pc = "batch"
    /\ sync.i < Len(sync.products)
    /\ LET skus == SkusOf(Batch(sync.products, sync.i))
       IN  IF skus = <<>>
           THEN /\ sync' = [sync EXCEPT !.pc = "skip", !.j = 0]
                /\ UNCHANGED sync_log
           ELSE \E answered \in BOOLEAN :
                /\ sync' = [sync EXCEPT
                       !.pc = "items", !.j = 0, !.updates = <<>>,
                       !.results = IF answered THEN Restrict(server.found, Range(skus))
                                   ELSE EmptyDict]
                /\ sync_log' = [sync_log EXCEPT !.lookups =
                       Append(@, [i |-> sync.i, answered |-> answered])]
    /\ UNCHANGED <<catalog, syncRest>>

\* one product of a batch without SKU: yield progress 'skipped'
SyncSkipProduct ==
    /\ sync # <<>>
    /\ sync.pc = "skip"
    /\ sync.j < Len(Batch(sync.products, sync.i))
    /\ sync' = [sync EXCEPT !.j = @ + 1, !.current_index = @ + 1]
    /\ Yield(ProgressEvent(sync.current_index + 1, Len(sync.products), "skipped", 0))
    /\ UNCHANGED <<catalog, syncRest>>

\* one product of the batch inside the try block: skipped, synced (with an
\* update) or not_found (with the update (id, None) in the inventory sync,
\* with no update in the price sync)
SyncProduct ==
    /\ sync # <<>>
    /\ sync.pc = "items"
    /\ sync.j < Len(Batch(sync.products, sync.i))
    /\ LET product == Batch(sync.products, sync.i)[sync.j + 1]
           upc_barcode == product.upc_barcode
           current_index == sync.current_index + 1
           total_products == Len(sync.products)
           s == [sync EXCEPT !.j = @ + 1, !.current_index = current_index]
       IN  IF upc_barcode = ""
           THEN /\ sync' = s
                /\ Yield(ProgressEvent(current_index, total_products, "skipped", 0))
           ELSE IF upc_barcode \in DOMAIN sync.results
           THEN /\ sync' = [s EXCEPT
                       !.updates = Append(@, <<product.id, Some(sync.results[upc_barcode])>>),
                       !.synced_count = @ + 1]
                /\ Yield(ProgressEvent(current_index, total_products, "synced",
                                       sync.results[upc_barcode]))
           ELSE /\ sync' = [s EXCEPT
                       !.updates = IF sync.kind = "inventory"
                                   THEN Append(@, <<product.id, None>>) ELSE @,
                       !.not_found_count = @ + 1]
                /\ Yield(ProgressEvent(current_index, total_products, "not_found", 0))
    /\ UNCHANGED <<catalog, syncRest>>

\* UPDATE products SET available_quantity = ? (or price = ?) WHERE id = ?
SetColumn(table, kind, u) ==
    [k \in DOMAIN table |->
        IF table[k].id = u[1]
        THEN IF kind = "inventory"
             THEN [table[k] EXCEPT !.available_quantity = u[2]]
             ELSE [table[k] EXCEPT !.price = u[2]]
        ELSE table[k]]

RECURSIVE SetColumns(_, _, _)
SetColumns(table, kind, updates) ==
    IF updates = <<>> THEN table
    ELSE SetColumns(SetColumn(table, kind, Head(updates)), kind, Tail(updates))

NextBatch(s) == [s EXCEPT !.pc = "batch", !.i = @ + batch_size]

\* the end of the try block: 'if updates:' bulk_update_inventory or
\* bulk_update_prices, which commits, or raises (the table stays as it was,
\* nothing is committed) and control goes to the except clause of the batch
SyncBulkUpdate ==
    /\ sync # <<>>
    /\ sync.pc = "items"
    /\ sync.j = Len(Batch(sync.products, sync.i))
    /\ IF sync.updates = <<>>
       THEN /\ sync' = NextBatch(sync)
            /\ UNCHANGED <<catalog, sync_log>>
       ELSE \/ /\ catalog' = SetColumns(catalog, sync.kind, sync.updates)
               /\ sync' = NextBatch(sync)
               /\ sync_log' = [sync_log EXCEPT !.bulk = Append(@, "committed")]
            \/ /\ catalog' = catalog
               /\ sync' = [sync EXCEPT !.pc = "except", !.j = 0]
               /\ sync_log' = [sync_log EXCEPT !.bulk = Append(@, "raised")]
    /\ UNCHANGED syncRest

\* except Exception: 'for product in batch: current_index += 1; yield
\* progress error', one product per step
SyncExceptProduct ==
    /\ sync # <<>>
    /\ sync.pc = "except"
    /\ sync.j < Len(Batch(sync.products, sync.i))
    /\ sync' = [sync EXCEPT !.j = @ + 1, !.current_index = @ + 1]
    /\ Yield(ProgressEvent(sync.current_index + 1, Len(sync.products), "error", 0))
    /\ UNCHANGED <<catalog, syncRest>>

\* the loop of skipped or error events is through: on to the next batch
SyncBatchEnd ==
    /\ sync # <<>>
    /\ sync.pc \in {"skip", "except"}
    /\ sync.j = Len(Batch(sync.products, sync.i))
    /\ sync' = NextBatch(sync)
    /\ UNCHANGED <<catalog, sync_log, syncRest>>

\* after the last batch: yield complete
SyncComplete ==
    /\ sync # <<>>
    /\ sync.pc = "batch"
    /\ sync.i >= Len(sync.products)
    /\ sync' = [sync EXCEPT !.pc = "returned"]
    /\ Yield(CompleteEvent(sync.synced_count, sync.not_found_count, Len(sync.products)))
    /\ UNCHANGED <<catalog, syncRest>>

NextSync ==
    \/ SyncStart
    \/ SyncClient
    \/ SyncBeginBatch
    \/ SyncSkipProduct
    \/ SyncProduct
    \/ SyncBulkUpdate
    \/ SyncExceptProduct
    \/ SyncBatchEnd
    \/ SyncComplete

SpecSync == InitSync /\ [][NextSync]_vars

SyncProgress == {k \in DOMAIN sync_log.events : sync_log.events[k].type = "progress"}

SyncCompleted ==
    /\ sync_log.events # <<>>
    /\ sync_log.events[Len(sync_log.events)].type = "complete"

\* C28: in both streams no progress event carries a current above its total,
\* and a stream that has completed carries exactly one progress event per
\* product, with current = 1, 2, ..., total
C28_OneProgressEventPerProduct ==
    /\ \A k \in SyncProgress : sync_log.events[k].current <= sync_log.events[k].total
    /\ SyncCompleted =>
          /\ Cardinality(SyncProgress) = Len(sync_log.before)
          /\ \A n \in 1..Len(sync_log.before) :
                Cardinality({k \in SyncProgress : sync_log.events[k].current = n}) = 1

\* the lookup made for the batch that holds row k of the table
LookupOf(k) ==
    {l \in Range(sync_log.lookups) : l.i < k /\ k <= l.i + batch_size}

\* C29: in the inventory sync a row's available quantity is changed to NULL
\* only if the lookup of its batch was answered and the answer holds no
\* variant for the row's SKU; the rows of a batch whose lookup failed keep
\* their available quantity
C29_NullOnlyWhenAnsweredWithoutVariant ==
    (sync.kind = "inventory") =>
        \A k \in DOMAIN catalog :
            /\ (catalog[k].available_quantity = None
                    /\ sync_log.before[k].available_quantity # None)
               => /\ \E l \in LookupOf(k) : l.answered
                  /\ catalog[k].upc_barcode \notin DOMAIN server.found
            /\ (\E l \in LookupOf(k) : ~l.answered)
               => catalog[k].available_quantity = sync_log.before[k].available_quantity

-----------------------------------------------------------------------------
(* create_quotation: the quotation number and the insert *)

MaxRequests == 2        \* create_quotation requests in flight
MaxClock == 1           \* seconds the clock may advance

\* "1001202500", the number of the first quotation
FirstNumber == 1001202500

\* a QuotationNumber: the digits of a number, the digits of a timestamp
\* (%Y%m%d%H%M%S, n counting the seconds), or a text that is no number
Number(n) == [kind |-> "number", n |-> n]
Stamp(t) == [kind |-> "stamp", n |-> t]
Text == [kind |-> "text", n |-> 0]

QuotationRow(id, number, by) == [QuotationID |-> id, QuotationNumber |-> number, by |-> by]

\* Quotations_tbl before the requests: empty, or its last row carries a number
\* or a text; 'by' is the request that inserted a row, 0 for the rows found
QuotationTables ==
    {<<>>, <<QuotationRow(1, Number(FirstNumber), 0)>>, <<QuotationRow(1, Text, 0)>>}

\* get_next_quotation_number: SELECT TOP 1 QuotationNumber ... ORDER BY
\* QuotationID DESC, then str(int(last_number) + 1); the timestamp if the
\* query fails or the last number is no number; "1001202500" for no row
NextQuotationNumber(table, query_failed, t) ==
    IF query_failed THEN Stamp(t)
    ELSE IF table = <<>> THEN Number(FirstNumber)
    ELSE LET last_number == table[Len(table)].QuotationNumber
         IN  IF last_number.kind = "text" THEN Stamp(t)
             ELSE [last_number EXCEPT !.n = @ + 1]

InitQuote ==
    /\ quotations \in QuotationTables
    /\ req = [r \in 1..MaxRequests |->
                [pc |-> "start", quotation_number |-> None, during |-> {}]]
    /\ now = 0
    /\ server = <<>> /\ call = <<>> /\ calls = <<>> /\ payload = <<>>
    /\ sync = <<>> /\ catalog = <<>> /\ sync_log = <<>>
    /\ settings = MainStoreOnly
    /\ product_ids_param = <<>>
    /\ db = <<>>
    /\ shop = [u \in Urls |-> <<>>]
    /\ FreshRun

quoteRest == <<server, call, calls, payload, sync, catalog, sync_log, runVars>>

\* the request up to quotation_number = client.get_next_quotation_number(),
\* on a client of its own; without the customer it returns 404. 'during'
\* records the requests that hold a number they have not inserted yet
QuoteNumber(r) ==
    /\ req # <<>>
    /\ r \in DOMAIN req
    /\ req[r].pc = "start"
    /\ \E customer_found \in BOOLEAN, query_failed \in BOOLEAN :
          req' = [req EXCEPT ![r] =
                     IF customer_found
                     THEN [pc |-> "numbered",
                           quotation_number |->
                               Some(NextQuotationNumber(quotations, query_failed, now)),
                           during |-> {q \in DOMAIN req : req[q].pc = "numbered"}]
                     ELSE [@ EXCEPT !.pc = "rejected"]]
    /\ UNCHANGED <<quotations, now, quoteRest>>

\* quotation_id = client.insert_quotation(quotation_data): the row is
\* inserted, or the insert fails, None is returned and the request ends (500)
QuoteInsert(r) ==
    /\ req # <<>>
    /\ r \in DOMAIN req
    /\ req[r].pc = "numbered"
    /\ \/ /\ quotations' = Append(quotations,
                  QuotationRow(Len(quotations) + 1, req[r].quotation_number[1], r))
          /\ req' = [req EXCEPT ![r].pc = "inserted"]
       \/ /\ quotations' = quotations
          /\ req' = [req EXCEPT ![r].pc = "failed"]
    /\ UNCHANGED <<now, quoteRest>>

\* a second passes
Tick ==
    /\ req # <<>>
    /\ now < MaxClock
    /\ now' = now + 1
    /\ UNCHANGED <<quotations, req, quoteRest>>

NextQuote ==
    \/ \E r \in 1..MaxRequests : QuoteNumber(r)
    \/ \E r \in 1..MaxRequests : QuoteInsert(r)
    \/ Tick

SpecQuote == InitQuote /\ [][NextQuote]_vars

\* requests a and b ran at the same time: one took its number while the other
\* held a number it had not inserted yet
RanConcurrently(a, b) == a \in req[b].during \/ b \in req[a].during

\* C30: two rows inserted by requests that ran at the same time carry
\* different quotation numbers
C30_ConcurrentNumbersDiffer ==
    \A x, y \in DOMAIN quotations :
        (/\ x # y
         /\ quotations[x].by # 0 /\ quotations[y].by # 0
         /\ RanConcurrently(quotations[x].by, quotations[y].by))
        => quotations[x].QuotationNumber # quotations[y].QuotationNumber

====
